---- MODULE Spec2Model ----
(***************************************************************************)
(* Token verification and authorization decision engine of                 *)
(* beanox/webservice.                                                      *)
(*                                                                         *)
(* The repository carries three generations of the engine, all modelled:   *)
(*   "legacy"     package authorization, authorization-middleware.go       *)
(*   "authpkg"    package authorization with the ValidateUser hook         *)
(*   "webservice" package webservice: authorization + per-route apphandler *)
(* A Go pointer is a sequence of length 0 (nil) or 1 (the pointee); a      *)
(* *UserInfo is a record whose ref field is the identity of the pointer.   *)
(***************************************************************************)
EXTENDS Integers, Sequences, FiniteSets, TLC

VARIABLES variant, phase, authorizationOptions, a, installed, routes,
          builderCalls, req, timeouts, setTimeoutsLog, server, resolutions

vars == <<variant, phase, authorizationOptions, a, installed, routes,
          builderCalls, req, timeouts, setTimeoutsLog, server, resolutions>>

Variants == {"legacy", "authpkg", "webservice"}

\* Number of per-route builder calls made while the router is configured.
MaxBuilderCalls == 1

\* Two routes: r1 is declared through the per-route builder, r2 is a plain
\* AppHandler(fn).
Routes == {"r1", "r2"}

BuiltRoutes == {"r1"}

(***************************************************************************)
(* Keys and tokens                                                         *)
(***************************************************************************)
\* The key set served by the static snapshot and by the JWKS URL.
KeySetKids == {"k1", "k2", "k3"}

KeyAlg(kid) == CASE kid = "k1" -> "RS256"
                 [] kid = "k2" -> "ES256"
                 [] OTHER      -> "RS384"

KeyType(kid) == IF kid = "k2" THEN "EC" ELSE "RSA"

\* Key type a jwt signing method accepts in Verify.
MethodKeyType(alg) == IF alg = "ES256" THEN "EC" ELSE "RSA"

Shapes == {"none", "wrong_scheme", "bearer", "prefixed", "double"}
Kids == {"nokid", "k1", "k2", "k3", "k9"}
Algs == {"RS256", "ES256", "RS384"}
Sigs == {"ok", "bad", "expired"}
\* The UserID values of the three sentinels.
SentinelUserIDs == {"_invalid_token_", "_invalid_scope_", "_unauthenticated_user_"}

Subs == {"", "u1"} \cup SentinelUserIDs
Emails == {"", "e1"}
Encs == {"none", "string", "list"}
ScopeSets == {{}, {"read"}, {"admin"}, {"*"}}

GoodBody(t) == t.kid = "k1" /\ t.alg = "RS256" /\ t.sig = "ok"

FullClaims(t) == t.sub = "u1" /\ t.email = "e1" /\ t.enc = "list" /\ t.scopes = {"admin"}

EmptyClaims(t) == t.sub = "" /\ t.email = "" /\ t.enc = "none" /\ t.scopes = {}

\* The requests enumerated: every claim combination on a verifying token,
\* every verification failure with full claims (a missing or unknown kid
\* also with empty claims), every header shape, and for each sentinel a
\* verifying token whose claims give the field values of that sentinel.
Canonical(t) ==
    /\ (t.enc = "none") <=> (t.scopes = {})
    /\ t.sub \in SentinelUserIDs => t.email = "" /\ t.enc = "none"
    /\ t.shape \in {"none", "wrong_scheme", "double", "prefixed"} => GoodBody(t) /\ FullClaims(t)
    /\ ~GoodBody(t) => /\ \/ FullClaims(t)
                          \/ EmptyClaims(t) /\ t.kid \in {"nokid", "k9"} /\ t.sig = "ok"
                       /\ t.sig = "expired" => t.kid = "k1"
                       /\ t.alg = "ES256" => t.kid \in {"k1", "k2"} /\ t.sig = "ok"
                       /\ t.alg = "RS384" => /\ t.kid \in {"k1", "k3"} /\ t.sig = "ok"
                                             /\ FullClaims(t)

Tokens == {t \in [shape : Shapes, kid : Kids, alg : Algs, sig : Sigs, sub : Subs,
                  email : Emails, enc : Encs, scopes : ScopeSets] : Canonical(t)}

NoToken == CHOOSE t \in Tokens : t.shape = "none"

(***************************************************************************)
(* UserInfo and the sentinels                                              *)
(***************************************************************************)
NilUser == [ref |-> "nil", UserID |-> "", Email |-> "", Scopes |-> {}]

userWithInvalidToken == [ref |-> "userWithInvalidToken", UserID |-> "_invalid_token_", Email |-> "", Scopes |-> {}]

userWithInvalidScope == [ref |-> "userWithInvalidScope", UserID |-> "_invalid_scope_", Email |-> "", Scopes |-> {}]

unauthenticatedUser == [ref |-> "unauthenticatedUser", UserID |-> "_unauthenticated_user_", Email |-> "", Scopes |-> {}]

\* &UserInfo{...}: a freshly allocated value, distinct from every sentinel.
NewUserInfo(uid, mail, scopes) == [ref |-> "new", UserID |-> uid, Email |-> mail, Scopes |-> scopes]

HasScope(ui, scope) == \E s \in ui.Scopes : s = scope

(***************************************************************************)
(* Options, New, Validate                                                  *)
(***************************************************************************)
Options == [Jwks : {"nil", "static"}, JwksURL : {"", "url"},
            RequiredScope : {"", "*", "admin"}, AllowAnonymous : BOOLEAN,
            InvalidTokenIsAnonymous : BOOLEAN, InvalidScopeIsAnonymous : BOOLEAN,
            Disabled : BOOLEAN]

\* Options passed to EnableAuthorization.
EnabledOptions == {o \in Options : o.Disabled => o.Jwks = "nil"}

\* OptionsFromViper / AuthorizationOptionsFromViper never set Jwks.
OptionsFromViper == {o \in Options : o.Jwks = "nil"}

\* ValidateUser hooks a service object may implement; "nil" is no hook.
UserValidators == {"nil", "hasRead"}

userValidator(hook, userInfo) == hook = "hasRead" => HasScope(userInfo, "read")

New_mutant(options, hook) ==
    LET disabled == options.Disabled
        jwks     == IF disabled THEN "nil" ELSE options.Jwks
        jwksURL  == IF disabled THEN "" ELSE options.JwksURL
    IN  [jwks                    |-> jwks,
         jwksURL                 |-> jwksURL,
         autoRefresh             |-> (jwksURL # ""),
         requiredScope           |-> IF options.RequiredScope = "" THEN "*" ELSE options.RequiredScope,
         allowAnonymous          |-> options.AllowAnonymous,
         invalidTokenIsAnonymous |-> options.InvalidTokenIsAnonymous,
         invalidScopeIsAnonymous |-> options.InvalidScopeIsAnonymous,
         disabled                |-> disabled,
         userValidator           |-> hook]

\* New / newAuthorizationMiddleware: the policy handle built from the options.
New(options, hook) ==
    LET disabled == options.Disabled
        jwks     == IF disabled THEN "nil" ELSE options.Jwks
        jwksURL  == IF disabled THEN "" ELSE options.JwksURL
    IN  [jwks                    |-> jwks,
         jwksURL                 |-> jwksURL,
         autoRefresh             |-> (jwks = "nil" /\ jwksURL # ""),
         requiredScope           |-> IF options.RequiredScope = "" THEN "*" ELSE options.RequiredScope,
         allowAnonymous          |-> options.AllowAnonymous,
         invalidTokenIsAnonymous |-> options.InvalidTokenIsAnonymous,
         invalidScopeIsAnonymous |-> options.InvalidScopeIsAnonymous,
         disabled                |-> disabled,
         userValidator           |-> hook]

Validate_mutant(auth, fetchOK) ==
    IF auth.autoRefresh /\ ~fetchOK THEN "fetch_error" ELSE "ok"

\* Validate: "ok", or the error it returns. fetchOK is the result of the one
\* autoRefresh.Fetch it performs.
Validate(auth, fetchOK) ==
    IF ~auth.disabled /\ ~auth.autoRefresh /\ auth.jwks = "nil" THEN "not_configured"
    ELSE IF auth.autoRefresh /\ ~fetchOK THEN "fetch_error"
    ELSE "ok"

(***************************************************************************)
(* Token verification: the jwt.Parse key function and jwt.Parse            *)
(***************************************************************************)
\* Result of the key function: the key handed to the signing method, or err.
KeyErr == [err |-> TRUE, kty |-> "none"]

KeyFunc_authpkg_mutant(auth, t, fetchOK) ==
    IF t.kid = "nokid" THEN KeyErr
    ELSE IF auth.autoRefresh /\ ~fetchOK THEN KeyErr
    ELSE IF ~auth.autoRefresh /\ auth.jwks = "nil" THEN KeyErr
    ELSE [err |-> FALSE, kty |-> "RSA"]

\* Key lookup of the authpkg generation: the algorithm bound to the key
\* selects the public-key type.
KeyFunc_authpkg(auth, t, fetchOK) ==
    IF t.kid = "nokid" THEN KeyErr
    ELSE IF auth.autoRefresh /\ ~fetchOK THEN KeyErr
    ELSE IF ~auth.autoRefresh /\ auth.jwks = "nil" THEN KeyErr
    ELSE IF t.kid \in KeySetKids
         THEN IF KeyAlg(t.kid) = "RS256"
                  THEN [err |-> KeyType(t.kid) # "RSA", kty |-> "RSA"]
              ELSE IF KeyAlg(t.kid) = "ES256"
                  THEN [err |-> KeyType(t.kid) # "EC", kty |-> "EC"]
              ELSE KeyErr
    ELSE KeyErr

\* Key lookup of the legacy and webservice generations: always an RSA key.
KeyFunc_rsa(auth, t, fetchOK) ==
    IF t.kid = "nokid" THEN KeyErr
    ELSE IF auth.autoRefresh /\ ~fetchOK THEN KeyErr
    ELSE IF ~auth.autoRefresh /\ auth.jwks = "nil" THEN KeyErr
    ELSE IF t.kid \in KeySetKids
         THEN [err |-> KeyType(t.kid) # "RSA", kty |-> "RSA"]
    ELSE KeyErr

\* jwt.Parse: TRUE iff err == nil and token.Valid. The signing method comes
\* from the token header; it rejects a key of another type.
Parse(t, key) ==
    /\ ~key.err
    /\ t.sig = "ok"
    /\ MethodKeyType(t.alg) = key.kty

\* strings.Split(tokenString, "Bearer"): the number of parts.
SplitLen(t) == CASE t.shape = "wrong_scheme" -> 1
                 [] t.shape = "double"       -> 3
                 [] OTHER                    -> 2

\* claims["scopes"].([]interface{}) of the legacy and authpkg generations.
ScopesFromList(t) == IF t.enc = "list" THEN t.scopes ELSE {}

\* strings.Fields(claims["scope"].(string)) of the webservice generation.
ScopesFromString(t) == IF t.enc = "string" THEN t.scopes ELSE {}

(***************************************************************************)
(* Middleware: the identity or sentinel stored in the request context      *)
(***************************************************************************)
\* legacy: authorization-middleware.go, Authorization.Middleware
Middleware_legacy(auth, t, fetchOK) ==
    IF auth.disabled THEN unauthenticatedUser
    ELSE IF t.shape = "none" THEN unauthenticatedUser
    ELSE IF SplitLen(t) # 2 THEN userWithInvalidToken
    ELSE IF ~Parse(t, KeyFunc_rsa(auth, t, fetchOK)) THEN userWithInvalidToken
    ELSE LET uid      == t.sub
             mail     == t.email
             scopes   == ScopesFromList(t)
             userInfo == NewUserInfo(uid, mail, scopes)
         IN  IF uid # "" /\ mail # ""
             THEN IF /\ auth.requiredScope # "" /\ auth.requiredScope # "*"
                     /\ ~HasScope(userInfo, auth.requiredScope) /\ ~HasScope(userInfo, "*")
                  THEN userWithInvalidScope
                  ELSE userInfo
             ELSE userWithInvalidToken

Middleware_authpkg_mutant(auth, t, fetchOK) ==
    IF auth.disabled THEN unauthenticatedUser
    ELSE IF t.shape = "none" THEN unauthenticatedUser
    ELSE IF SplitLen(t) # 2 THEN userWithInvalidToken
    ELSE IF ~Parse(t, KeyFunc_authpkg(auth, t, fetchOK)) THEN userWithInvalidToken
    ELSE LET uid      == t.sub
             mail     == t.email
             scopes   == ScopesFromList(t)
             userInfo == NewUserInfo(uid, mail, scopes)
         IN  IF uid # ""
             THEN IF auth.userValidator # "nil" /\ ~userValidator(auth.userValidator, userInfo)
                  THEN userWithInvalidScope
                  ELSE IF /\ auth.requiredScope # "" /\ auth.requiredScope # "*"
                          /\ ~HasScope(userInfo, auth.requiredScope) /\ ~HasScope(userInfo, "*")
                       THEN userWithInvalidScope
                       ELSE userInfo
             ELSE userWithInvalidToken

\* authpkg: Authorization.Middleware with the userValidator hook
Middleware_authpkg(auth, t, fetchOK) ==
    IF auth.disabled THEN unauthenticatedUser
    ELSE IF t.shape = "none" THEN unauthenticatedUser
    ELSE IF SplitLen(t) # 2 THEN userWithInvalidToken
    ELSE IF ~Parse(t, KeyFunc_authpkg(auth, t, fetchOK)) THEN userWithInvalidToken
    ELSE LET uid      == t.sub
             mail     == t.email
             scopes   == ScopesFromList(t)
             userInfo == NewUserInfo(uid, mail, scopes)
         IN  IF uid # ""
             THEN IF auth.userValidator # "nil"
                  THEN IF ~userValidator(auth.userValidator, userInfo)
                       THEN userWithInvalidScope
                       ELSE userInfo
                  ELSE IF /\ auth.requiredScope # "" /\ auth.requiredScope # "*"
                          /\ ~HasScope(userInfo, auth.requiredScope) /\ ~HasScope(userInfo, "*")
                       THEN userWithInvalidScope
                       ELSE userInfo
             ELSE userWithInvalidToken

Middleware_webservice_nilUser(auth, t, fetchOK) ==
    IF t.shape = "none" THEN NilUser
    ELSE IF SplitLen(t) # 2 THEN userWithInvalidToken
    ELSE IF ~Parse(t, KeyFunc_rsa(auth, t, fetchOK)) THEN userWithInvalidToken
    ELSE LET uid    == t.sub
             mail   == t.email
             scopes == ScopesFromString(t)
         IN  IF uid # "" THEN NewUserInfo(uid, mail, scopes)
             ELSE userWithInvalidToken

Middleware_webservice_mutant(auth, t, fetchOK) ==
    IF t.shape = "none" THEN unauthenticatedUser
    ELSE IF SplitLen(t) # 2 THEN userWithInvalidToken
    ELSE IF ~Parse(t, KeyFunc_rsa(auth, t, fetchOK)) THEN userWithInvalidToken
    ELSE LET uid    == t.sub
             mail   == t.email
             scopes == ScopesFromString(t)
         IN  NewUserInfo(uid, mail, scopes)

\* webservice: authorization.Middleware; it neither reads a.disabled nor
\* checks the scope, which is left to the route handler.
Middleware_webservice(auth, t, fetchOK) ==
    IF t.shape = "none" THEN unauthenticatedUser
    ELSE IF SplitLen(t) # 2 THEN userWithInvalidToken
    ELSE IF ~Parse(t, KeyFunc_rsa(auth, t, fetchOK)) THEN userWithInvalidToken
    ELSE LET uid    == t.sub
             mail   == t.email
             scopes == ScopesFromString(t)
         IN  IF uid # "" THEN NewUserInfo(uid, mail, scopes)
             ELSE userWithInvalidToken

MiddlewareUserInfo(v, auth, t, fetchOK) ==
    CASE v = "legacy"  -> Middleware_legacy(auth, t, fetchOK)
      [] v = "authpkg" -> Middleware_authpkg(auth, t, fetchOK)
      [] OTHER         -> Middleware_webservice(auth, t, fetchOK)

\* Whether the key function reaches autoRefresh.Fetch for this request.
Fetches(v, auth, t) ==
    /\ auth.autoRefresh
    /\ v = "webservice" \/ ~auth.disabled
    /\ t.shape # "none"
    /\ SplitLen(t) = 2
    /\ t.kid # "nokid"

\* Whether the middleware calls a.userValidator for this request.
CallsUserValidator(v, auth, t, fetchOK) ==
    /\ v = "authpkg"
    /\ ~auth.disabled
    /\ t.shape # "none"
    /\ SplitLen(t) = 2
    /\ Parse(t, KeyFunc_authpkg(auth, t, fetchOK))
    /\ t.sub # ""
    /\ auth.userValidator # "nil"

(***************************************************************************)
(* Route handlers: the terminal outcome of a request                       *)
(***************************************************************************)
\* status 200 stands for "the application function wrote the response".
\* The error value nil.
NoError == "nil"

\* Nothing written by an error handler.
NoBody == [code |-> 0, message |-> "", description |-> ""]

\* servererror.ServerError: the error object; Stack is the captured stack.
ServerError(Parent, Code, Message) ==
    [Parent |-> Parent, Code |-> Code, Message |-> Message, Description |-> "",
     Stack |-> "stack"]

Marshal_mutant(e) ==
    [code |-> e.Code, message |-> e.Message, description |-> e.Stack]

\* json.Marshal of a ServerErrorData: Parent and Stack carry the tag "-";
\* an empty description is omitted.
Marshal(e) ==
    [code |-> e.Code, message |-> e.Message, description |-> e.Description]

\* servererror.ProcessHTTPError, of the legacy and authpkg handlers: the
\* status and the body written for a non-nil error.
ProcessHTTPError(err) ==
    LET serverError == [err EXCEPT !.Description =
                            IF err.Parent # NoError THEN err.Parent ELSE err.Description]
    IN  [status |-> serverError.Code, body |-> Marshal(serverError)]

\* The error body of package webservice: a machine code and a human
\* message, with the parent's text as description when there is a parent.
Marshal_webservice(e) ==
    [code |-> e.Code, message |-> e.Message, description |-> e.Description]

\* processHTTPError of package webservice.
processHTTPError(err) ==
    LET serverError == [err EXCEPT !.Description =
                            IF err.Parent # NoError THEN err.Parent ELSE err.Description]
    IN  [status |-> serverError.Code, body |-> Marshal_webservice(serverError)]

\* No response written (yet).
NoResponse == [status |-> 0, appCalled |-> FALSE, appUser |-> NilUser, body |-> NoBody]

Reject_mutant(code, message) ==
    LET response == ProcessHTTPError(ServerError(NoError, code, message)) IN
    [status |-> response.status, appCalled |-> TRUE, appUser |-> NilUser,
     body |-> response.body]

\* err = ServerError(nil, code, message); ProcessHTTPError(err, w, r); return
Reject(code, message) ==
    LET written == ProcessHTTPError(ServerError(NoError, code, message))
    IN  [status |-> written.status, appCalled |-> FALSE, appUser |-> NilUser,
         body |-> written.body]

Reject_webservice(code, message) ==
    LET written == processHTTPError(ServerError(NoError, code, message))
    IN  [status |-> written.status, appCalled |-> FALSE, appUser |-> NilUser,
         body |-> written.body]

Invoke(userInfo) == [status |-> 200, appCalled |-> TRUE, appUser |-> userInfo,
                    body |-> NoBody]

\* A nil *UserInfo dereferenced by HasScope: the handler panics, nothing is
\* written (status 0).
Panic == [status |-> 0, appCalled |-> FALSE, appUser |-> NilUser, body |-> NoBody]

ServeHTTP_AppHandler_noDisabled(ctxAuth, ctxUser) ==
    IF Len(ctxAuth) = 0
    THEN Reject(500, "Authorization info not available")
    ELSE LET auth == ctxAuth[1] IN
         IF ctxUser.ref = "nil" /\ ~auth.allowAnonymous
              THEN Reject(500, "Unable to get user info")
         ELSE IF ctxUser = unauthenticatedUser
              THEN IF auth.allowAnonymous THEN Invoke(NilUser) ELSE Reject(401, "Unauthorized")
         ELSE IF ctxUser = userWithInvalidToken
              THEN IF auth.invalidTokenIsAnonymous THEN Invoke(NilUser) ELSE Reject(401, "Unauthorized")
         ELSE IF ctxUser = userWithInvalidScope
              THEN IF auth.invalidScopeIsAnonymous THEN Invoke(NilUser) ELSE Reject(403, "Forbidden")
         ELSE Invoke(ctxUser)

ServeHTTP_AppHandler_noHandleCheck(ctxAuth, ctxUser) ==
    IF Len(ctxAuth) = 0 THEN Invoke(NilUser)
    ELSE LET auth == ctxAuth[1] IN
         IF auth.disabled THEN Invoke(NilUser)
         ELSE IF ctxUser.ref = "nil" /\ ~auth.allowAnonymous
              THEN Reject(500, "Unable to get user info")
         ELSE IF ctxUser = unauthenticatedUser
              THEN IF auth.allowAnonymous THEN Invoke(NilUser) ELSE Reject(401, "Unauthorized")
         ELSE IF ctxUser = userWithInvalidToken
              THEN IF auth.invalidTokenIsAnonymous THEN Invoke(NilUser) ELSE Reject(401, "Unauthorized")
         ELSE IF ctxUser = userWithInvalidScope
              THEN IF auth.invalidScopeIsAnonymous THEN Invoke(NilUser) ELSE Reject(403, "Forbidden")
         ELSE Invoke(ctxUser)

ServeHTTP_AppHandler_passSentinel(ctxAuth, ctxUser) ==
    IF Len(ctxAuth) = 0
    THEN Reject(500, "Authorization info not available")
    ELSE LET auth == ctxAuth[1] IN
         IF auth.disabled THEN Invoke(NilUser)
         ELSE IF ctxUser.ref = "nil" /\ ~auth.allowAnonymous
              THEN Reject(500, "Unable to get user info")
         ELSE IF ctxUser = unauthenticatedUser
              THEN IF auth.allowAnonymous THEN Invoke(NilUser) ELSE Reject(401, "Unauthorized")
         ELSE IF ctxUser = userWithInvalidToken
              THEN IF auth.invalidTokenIsAnonymous THEN Invoke(ctxUser) ELSE Reject(401, "Unauthorized")
         ELSE IF ctxUser = userWithInvalidScope
              THEN IF auth.invalidScopeIsAnonymous THEN Invoke(NilUser) ELSE Reject(403, "Forbidden")
         ELSE Invoke(ctxUser)

\* AppHandler.ServeHTTP of the legacy and authpkg generations. ctxAuth is
\* the context lookup of the policy handle: <<>> when absent.
ServeHTTP_AppHandler(ctxAuth, ctxUser) ==
    IF Len(ctxAuth) = 0
    THEN Reject(500, "Authorization info not available")
    ELSE LET auth == ctxAuth[1] IN
         IF auth.disabled THEN Invoke(NilUser)
         ELSE IF ctxUser.ref = "nil" /\ ~auth.allowAnonymous
              THEN Reject(500, "Unable to get user info")
         ELSE IF ctxUser = unauthenticatedUser
              THEN IF auth.allowAnonymous THEN Invoke(NilUser) ELSE Reject(401, "Unauthorized")
         ELSE IF ctxUser = userWithInvalidToken
              THEN IF auth.invalidTokenIsAnonymous THEN Invoke(NilUser) ELSE Reject(401, "Unauthorized")
         ELSE IF ctxUser = userWithInvalidScope
              THEN IF auth.invalidScopeIsAnonymous THEN Invoke(NilUser) ELSE Reject(403, "Forbidden")
         ELSE Invoke(ctxUser)

\* A route of the webservice generation: the apphandler's optional settings.
NoOverride == [allowedScopes |-> <<>>, allowAnonymous |-> <<>>,
               invalidTokenIsAnonymous |-> <<>>, invalidScopeIsAnonymous |-> <<>>]

HasValidScope_mutant(allowedScopes, userInfo) ==
    \E i \in 1..Len(allowedScopes) :
        \/ allowedScopes[i] = ""
        \/ HasScope(userInfo, allowedScopes[i])

\* for _, scp := range allowedScopes { if scp == "" || scp == "*" || userInfo.HasScope(scp) ... }
HasValidScope(allowedScopes, userInfo) ==
    \E i \in 1..Len(allowedScopes) :
        \/ allowedScopes[i] = ""
        \/ allowedScopes[i] = "*"
        \/ HasScope(userInfo, allowedScopes[i])

EffAllowAnonymous_mutant(ah, auth) == auth.allowAnonymous

\* The four per-request settings apphandler.ServeHTTP computes.
EffAllowAnonymous(ah, auth) ==
    IF Len(ah.allowAnonymous) # 0 THEN ah.allowAnonymous[1] ELSE auth.allowAnonymous

EffInvalidTokenIsAnonymous(ah, auth) ==
    IF Len(ah.invalidTokenIsAnonymous) # 0 THEN ah.invalidTokenIsAnonymous[1]
    ELSE auth.invalidScopeIsAnonymous

EffInvalidScopeIsAnonymous_mutant(ah, auth) == auth.invalidScopeIsAnonymous

EffInvalidScopeIsAnonymous(ah, auth) ==
    IF Len(ah.invalidScopeIsAnonymous) # 0 THEN ah.invalidScopeIsAnonymous[1]
    ELSE auth.invalidScopeIsAnonymous

EffAllowedScopes_mutant(ah, auth) == <<auth.requiredScope>>

\* allowedScopes := []string{a.requiredScope}, replaced by the route's list.
EffAllowedScopes(ah, auth) ==
    IF Len(ah.allowedScopes) # 0 THEN ah.allowedScopes[1] ELSE <<auth.requiredScope>>

ServeHTTP_apphandler_mutant(ah, ctxAuth, ctxUser) ==
    IF Len(ctxAuth) = 0 THEN Invoke(NilUser)
    ELSE LET auth                    == ctxAuth[1]
             allowAnonymous          == EffAllowAnonymous(ah, auth)
             invalidTokenIsAnonymous == EffInvalidTokenIsAnonymous(ah, auth)
             invalidScopeIsAnonymous == EffInvalidScopeIsAnonymous(ah, auth)
             allowedScopes           == EffAllowedScopes(ah, auth)
         IN
         IF auth.disabled THEN Invoke(NilUser)
         ELSE IF ctxUser.ref = "nil" /\ ~allowAnonymous
              THEN Reject_webservice(500, "Unable to get user info")
         ELSE IF ctxUser.UserID = unauthenticatedUser.UserID
              THEN IF allowAnonymous THEN Invoke(NilUser) ELSE Reject_webservice(401, "Unauthorized")
         ELSE IF ctxUser.UserID = userWithInvalidToken.UserID
              THEN IF invalidTokenIsAnonymous THEN Invoke(NilUser) ELSE Reject_webservice(401, "Unauthorized")
         ELSE IF /\ ctxUser.ref = "nil" /\ Len(allowedScopes) # 0
                 /\ allowedScopes[1] \notin {"", "*"}
              THEN Panic
         ELSE IF ~HasValidScope(allowedScopes, ctxUser)
              THEN IF invalidScopeIsAnonymous THEN Invoke(NilUser) ELSE Reject_webservice(403, "Forbidden")
         ELSE Invoke(ctxUser)

\* apphandler.ServeHTTP of the webservice generation.
ServeHTTP_apphandler(ah, ctxAuth, ctxUser) ==
    IF Len(ctxAuth) = 0 THEN Invoke(NilUser)
    ELSE LET auth                    == ctxAuth[1]
             allowAnonymous          == EffAllowAnonymous(ah, auth)
             invalidTokenIsAnonymous == EffInvalidTokenIsAnonymous(ah, auth)
             invalidScopeIsAnonymous == EffInvalidScopeIsAnonymous(ah, auth)
             allowedScopes           == EffAllowedScopes(ah, auth)
         IN
         IF auth.disabled THEN Invoke(NilUser)
         ELSE IF ctxUser.ref = "nil" /\ ~allowAnonymous
              THEN Reject_webservice(500, "Unable to get user info")
         ELSE IF ctxUser = unauthenticatedUser
              THEN IF allowAnonymous THEN Invoke(NilUser) ELSE Reject_webservice(401, "Unauthorized")
         ELSE IF ctxUser = userWithInvalidToken
              THEN IF invalidTokenIsAnonymous THEN Invoke(NilUser) ELSE Reject_webservice(401, "Unauthorized")
         ELSE IF /\ ctxUser.ref = "nil" /\ Len(allowedScopes) # 0
                 /\ allowedScopes[1] \notin {"", "*"}
              THEN Panic
         ELSE IF ~HasValidScope(allowedScopes, ctxUser)
              THEN IF invalidScopeIsAnonymous THEN Invoke(NilUser) ELSE Reject_webservice(403, "Forbidden")
         ELSE Invoke(ctxUser)

ServeHTTPOutcome(v, ah, ctxAuth, ctxUser) ==
    IF v = "webservice" THEN ServeHTTP_apphandler(ah, ctxAuth, ctxUser)
    ELSE ServeHTTP_AppHandler(ctxAuth, ctxUser)

(***************************************************************************)
(* State machine                                                           *)
(***************************************************************************)
\* Scope lists a route passes to AllowScopes.
ScopeLists == {<<"read", "admin">>, <<"admin", "*">>, <<"admin", "">>}

\* Timeouts in seconds: the values New / NewSimpleService give the service.
DefaultWriteTimeout == 15

DefaultReadTimeout == 15

DefaultIdleTimeout == 60

DefaultTimeouts == [writeTimeout |-> DefaultWriteTimeout,
                    readTimeout  |-> DefaultReadTimeout,
                    idleTimeout  |-> DefaultIdleTimeout]

\* Durations passed to SetTimeouts.
Durations == {0, 60}

\* Number of SetTimeouts calls made before Start.
MaxSetTimeoutsCalls == 2

\* srv := &http.Server{WriteTimeout: s.writeTimeout, ...}
Server(t) == [WriteTimeout |-> t.writeTimeout, ReadTimeout |-> t.readTimeout,
              IdleTimeout |-> t.idleTimeout]

\* Number of resolutions the log of the requests followed step by step keeps.
MaxResolutions == 2

IdleReq == [pc |-> "idle", token |-> NoToken, fetchOK |-> TRUE,
            fetched |-> FALSE, validatorCalled |-> FALSE, ctxDone |-> FALSE,
            route |-> "r1",
            ctxAuth |-> <<>>, ctxUser |-> NilUser, out |-> NoResponse]

Init ==
    /\ variant \in Variants
    /\ phase = "configuring"
    /\ authorizationOptions = <<>>
    /\ a = <<>>
    /\ installed = FALSE
    /\ routes = [r \in Routes |-> NoOverride]
    /\ builderCalls = 0
    /\ req = IdleReq
    /\ timeouts = DefaultTimeouts
    /\ setTimeoutsLog = <<>>
    /\ server = <<>>
    /\ resolutions = <<>>

\* webservice.EnableAuthorization
EnableAuthorization(o) ==
    /\ variant = "webservice"
    /\ phase = "configuring"
    /\ authorizationOptions' = <<o>>
    /\ UNCHANGED <<resolutions, timeouts, setTimeoutsLog, server, variant, phase, a,
                   installed, routes, builderCalls, req>>

Configuring ==
    /\ variant = "webservice"
    /\ phase = "configuring"
    /\ builderCalls < MaxBuilderCalls
    /\ builderCalls' = builderCalls + 1
    /\ UNCHANGED <<resolutions, timeouts, setTimeoutsLog, server, variant, phase,
                   authorizationOptions, a, installed, req>>

\* apphandler.AllowScopes
AllowScopes(r, allowedScopes) ==
    /\ Configuring
    /\ routes' = [routes EXCEPT ![r].allowedScopes = <<allowedScopes>>]

\* apphandler.AllowAnonymous
AllowAnonymous(r) ==
    /\ Configuring
    /\ routes' = [routes EXCEPT ![r].allowAnonymous = <<TRUE>>,
                                ![r].invalidTokenIsAnonymous = <<TRUE>>,
                                ![r].invalidScopeIsAnonymous = <<TRUE>>]

\* apphandler.InvalidTokenIsAnonymous
InvalidTokenIsAnonymous(r) ==
    /\ Configuring
    /\ routes' = [routes EXCEPT ![r].invalidTokenIsAnonymous = <<TRUE>>]

InvalidScopeIsAnonymous_mutant(r) ==
    /\ Configuring
    /\ routes' = [routes EXCEPT ![r].invalidScopeIsAnonymous = <<TRUE>>,
                                ![r].invalidTokenIsAnonymous = <<TRUE>>]

\* apphandler.InvalidScopeIsAnonymous
InvalidScopeIsAnonymous(r) ==
    /\ Configuring
    /\ routes' = [routes EXCEPT ![r].invalidScopeIsAnonymous = <<TRUE>>]

\* SetTimeouts of SimpleServiceBase and of webservice, called before Start.
\* setTimeoutsLog records the arguments of the calls made so far.
SetTimeouts(writeTimeout, readTimeout, idleTimeout) ==
    /\ variant \in {"legacy", "webservice"}
    /\ phase = "configuring"
    /\ Len(setTimeoutsLog) < MaxSetTimeoutsCalls
    /\ timeouts' = [writeTimeout |-> IF writeTimeout > 0 THEN writeTimeout
                                     ELSE timeouts.writeTimeout,
                    readTimeout  |-> IF readTimeout > 0 THEN readTimeout
                                     ELSE timeouts.readTimeout,
                    idleTimeout  |-> IF idleTimeout > 0 THEN idleTimeout
                                     ELSE timeouts.idleTimeout]
    /\ setTimeoutsLog' = Append(setTimeoutsLog,
                                [writeTimeout |-> writeTimeout,
                                 readTimeout  |-> readTimeout,
                                 idleTimeout  |-> idleTimeout])
    /\ UNCHANGED <<variant, phase, authorizationOptions, a, installed, routes,
                   builderCalls, req, server, resolutions>>

\* The part of Start that builds, installs and validates the middleware;
\* the server listens only when Validate returned no error.
StartWith(o, hook, fetchOK) ==
    LET auth == New(o, hook) IN
    /\ authorizationOptions' = <<o>>
    /\ a' = <<auth>>
    /\ installed' = TRUE
    /\ phase' = IF Validate(auth, fetchOK) = "ok" THEN "serving" ELSE "failed"
    /\ server' = IF Validate(auth, fetchOK) = "ok" THEN <<Server(timeouts)>> ELSE <<>>
    /\ UNCHANGED <<resolutions, timeouts, setTimeoutsLog, variant, routes, builderCalls, req>>

\* webservice.Start: the middleware is installed only when
\* EnableAuthorization was called.
Start_webservice(fetchOK) ==
    /\ variant = "webservice"
    /\ phase = "configuring"
    /\ IF Len(authorizationOptions) # 0
       THEN StartWith(authorizationOptions[1], "nil", fetchOK)
       ELSE /\ phase' = "serving"
            /\ server' = <<Server(timeouts)>>
            /\ UNCHANGED <<resolutions, timeouts, setTimeoutsLog, variant, authorizationOptions,
                           a, installed, routes, builderCalls, req>>

\* WebServiceBase.Start
Start_authpkg(o, hook, fetchOK) ==
    /\ variant = "authpkg"
    /\ phase = "configuring"
    /\ StartWith(o, hook, fetchOK)

\* SimpleServiceBase.Start
Start_legacy(o, fetchOK) ==
    /\ variant = "legacy"
    /\ phase = "configuring"
    /\ StartWith(o, "nil", fetchOK)

Middleware_mutant(t, fetchOK) ==
    LET userInfo == MiddlewareUserInfo(variant, a[1], t, fetchOK) IN
    /\ phase = "serving"
    /\ installed
    /\ req.pc = "idle"
    /\ fetchOK \/ Fetches(variant, a[1], t)
    /\ req' = [pc |-> IF userInfo = userWithInvalidToken THEN "done" ELSE "routed",
               token |-> t, fetchOK |-> fetchOK,
               fetched |-> Fetches(variant, a[1], t),
               validatorCalled |-> CallsUserValidator(variant, a[1], t, fetchOK),
               ctxDone |-> FALSE, route |-> "r1",
               ctxAuth |-> a,
               ctxUser |-> userInfo,
               out |-> IF userInfo = userWithInvalidToken
                       THEN Reject(401, "Unauthorized") ELSE NoResponse]
    /\ UNCHANGED <<resolutions, timeouts, setTimeoutsLog, server, variant, phase,
                   authorizationOptions, a, installed, routes, builderCalls>>

\* A request enters the middleware, which stores the policy handle and the
\* identity or sentinel in the request context and calls the next handler.
Middleware(t, fetchOK) ==
    /\ phase = "serving"
    /\ installed
    /\ req.pc = "idle"
    /\ fetchOK \/ Fetches(variant, a[1], t)
    /\ req' = [pc |-> "routed", token |-> t, fetchOK |-> fetchOK,
               fetched |-> Fetches(variant, a[1], t),
               validatorCalled |-> CallsUserValidator(variant, a[1], t, fetchOK),
               ctxDone |-> FALSE, route |-> "r1",
               ctxAuth |-> a,
               ctxUser |-> MiddlewareUserInfo(variant, a[1], t, fetchOK),
               out |-> NoResponse]
    /\ UNCHANGED <<resolutions, timeouts, setTimeoutsLog, server, variant, phase,
                   authorizationOptions, a, installed, routes, builderCalls>>

Resolve_mutant(t, fetchOK) ==
    LET seen     == \E i \in 1..Len(resolutions) : resolutions[i].token = t
        userInfo == IF seen /\ t.shape # "none" THEN userWithInvalidToken
                    ELSE MiddlewareUserInfo(variant, a[1], t, fetchOK)
    IN
    /\ req' = [pc |-> "routed", token |-> t, fetchOK |-> fetchOK,
               fetched |-> Fetches(variant, a[1], t),
               validatorCalled |-> CallsUserValidator(variant, a[1], t, fetchOK),
               ctxDone |-> req.ctxDone, route |-> "r1",
               ctxAuth |-> a, ctxUser |-> userInfo, out |-> NoResponse]
    /\ resolutions' = IF Len(resolutions) < MaxResolutions
                      THEN Append(resolutions, [token |-> t, fetchOK |-> fetchOK,
                                                ctxUser |-> userInfo])
                      ELSE resolutions
    /\ UNCHANGED <<variant, phase, authorizationOptions, a, installed, routes,
                   builderCalls, timeouts, setTimeoutsLog, server>>

\* The middleware resolves the request of token t with the fetch result
\* fetchOK, stores the policy handle and the identity or sentinel in the
\* request context and calls the next handler. resolutions records what the
\* requests followed step by step were resolved to.
Resolve(t, fetchOK) ==
    LET userInfo == MiddlewareUserInfo(variant, a[1], t, fetchOK) IN
    /\ req' = [pc |-> "routed", token |-> t, fetchOK |-> fetchOK,
               fetched |-> Fetches(variant, a[1], t),
               validatorCalled |-> CallsUserValidator(variant, a[1], t, fetchOK),
               ctxDone |-> req.ctxDone, route |-> "r1",
               ctxAuth |-> a, ctxUser |-> userInfo, out |-> NoResponse]
    /\ resolutions' = IF Len(resolutions) < MaxResolutions
                      THEN Append(resolutions, [token |-> t, fetchOK |-> fetchOK,
                                                ctxUser |-> userInfo])
                      ELSE resolutions
    /\ UNCHANGED <<variant, phase, authorizationOptions, a, installed, routes,
                   builderCalls, timeouts, setTimeoutsLog, server>>

\* The middleware up to the key function's autoRefresh.Fetch: a request
\* that does not reach the call is resolved at once, the other waits for
\* Fetch to return.
BeginRequest(t) ==
    /\ phase = "serving"
    /\ installed
    /\ req.pc = "idle"
    /\ IF Fetches(variant, a[1], t)
       THEN /\ req' = [IdleReq EXCEPT !.pc = "fetching", !.token = t,
                                      !.fetched = TRUE, !.ctxAuth = a,
                                      !.ctxUser = userWithInvalidToken]
            /\ UNCHANGED <<variant, phase, authorizationOptions, a, installed,
                           routes, builderCalls, timeouts, setTimeoutsLog, server,
                           resolutions>>
       ELSE Resolve(t, TRUE)

FetchReturns_mutant(fetchOK) ==
    /\ req.pc = "fetching"
    /\ IF fetchOK THEN Resolve(req.token, TRUE)
       ELSE /\ phase' = "failed"
            /\ req' = IdleReq
            /\ UNCHANGED <<variant, authorizationOptions, a, installed, routes,
                           builderCalls, timeouts, setTimeoutsLog, server,
                           resolutions>>

\* autoRefresh.Fetch(context.Background(), a.jwksURL) returns, with a key
\* set or with an error, and the middleware goes on. The context of the
\* call is never done, so nothing but the fetch itself ends the wait.
FetchReturns(fetchOK) ==
    /\ req.pc = "fetching"
    /\ Resolve(req.token, fetchOK)

\* The client goes away or the request's deadline elapses: r.Context() is
\* done. The handler chain keeps running.
Cancel ==
    /\ req.pc \in {"fetching", "routed"}
    /\ ~req.ctxDone
    /\ req' = [req EXCEPT !.ctxDone = TRUE]
    /\ UNCHANGED <<variant, phase, authorizationOptions, a, installed, routes,
                   builderCalls, timeouts, setTimeoutsLog, server, resolutions>>

\* The router dispatches the request to the handler of route r.
ServeHTTP(r) ==
    /\ req.pc = "routed"
    /\ variant = "webservice" \/ r = "r1"
    /\ req' = [req EXCEPT !.pc = "done", !.route = r,
                          !.out = ServeHTTPOutcome(variant, routes[r], req.ctxAuth, req.ctxUser)]
    /\ UNCHANGED <<resolutions, timeouts, setTimeoutsLog, server, variant, phase,
                   authorizationOptions, a, installed, routes, builderCalls>>

\* A route handler served without the middleware in front of it: the
\* request context carries neither policy handle nor user info.
ServeHTTPDirect(t, r) ==
    /\ phase = "serving"
    /\ variant = "webservice" => ~installed
    /\ variant = "webservice" \/ r = "r1"
    /\ req.pc = "idle"
    /\ req' = [pc |-> "done", token |-> t, fetchOK |-> TRUE,
               fetched |-> FALSE, validatorCalled |-> FALSE, ctxDone |-> FALSE,
               route |-> r,
               ctxAuth |-> <<>>, ctxUser |-> NilUser,
               out |-> ServeHTTPOutcome(variant, routes[r], <<>>, NilUser)]
    /\ UNCHANGED <<resolutions, timeouts, setTimeoutsLog, server, variant, phase,
                   authorizationOptions, a, installed, routes, builderCalls>>

\* The response is written and the request ends; its context is discarded.
Finish ==
    /\ req.pc = "done"
    /\ req' = IdleReq
    /\ UNCHANGED <<resolutions, timeouts, setTimeoutsLog, server, variant, phase,
                   authorizationOptions, a, installed, routes, builderCalls>>

Next ==
    \/ \E o \in EnabledOptions : EnableAuthorization(o)
    \/ \E r \in BuiltRoutes, l \in ScopeLists : AllowScopes(r, l)
    \/ \E r \in BuiltRoutes : AllowAnonymous(r)
    \/ \E r \in BuiltRoutes : InvalidTokenIsAnonymous(r)
    \/ \E r \in BuiltRoutes : InvalidScopeIsAnonymous(r)
    \/ \E f \in BOOLEAN : Start_webservice(f)
    \/ \E o \in OptionsFromViper, h \in UserValidators, f \in BOOLEAN : Start_authpkg(o, h, f)
    \/ \E o \in OptionsFromViper, f \in BOOLEAN : Start_legacy(o, f)
    \/ \E t \in Tokens, f \in BOOLEAN : Middleware(t, f)
    \/ \E r \in Routes : ServeHTTP(r)
    \/ \E t \in Tokens, r \in Routes : ServeHTTPDirect(t, r)
    \/ Finish

Spec == Init /\ [][Next]_vars

\* The service as configured and started with its timeouts: SetTimeouts
\* touches no state the authorization engine reads, so the calls are
\* explored apart from the requests.
NextTimeouts ==
    \/ \E w \in Durations, r \in Durations, i \in Durations : SetTimeouts(w, r, i)
    \/ \E f \in BOOLEAN : Start_webservice(f)
    \/ \E o \in OptionsFromViper, f \in BOOLEAN : Start_legacy(o, f)

SpecTimeouts == Init /\ [][NextTimeouts]_vars

\* Options and tokens of the requests followed step by step: a remote or a
\* static key set, and a token per way the verification can end.
FetchOptions == {o \in Options : /\ ~o.Disabled /\ o.JwksURL = "url"
                                 /\ o.RequiredScope = "admin" /\ ~o.AllowAnonymous}

FetchTokens == {t \in Tokens : /\ FullClaims(t) /\ t.kid = "k1" /\ t.alg = "RS256"
                               /\ t.shape \in {"none", "bearer"}}

\* The middleware followed through its blocking call: a request waits in
\* the key function until autoRefresh.Fetch returns.
NextFetch ==
    \/ \E o \in FetchOptions : EnableAuthorization(o)
    \/ \E f \in BOOLEAN : Start_webservice(f)
    \/ \E o \in FetchOptions \cap OptionsFromViper, f \in BOOLEAN : Start_authpkg(o, "nil", f)
    \/ \E t \in FetchTokens : BeginRequest(t)
    \/ \E f \in BOOLEAN : FetchReturns(f)
    \/ Cancel
    \/ \E r \in BuiltRoutes : ServeHTTP(r)
    \/ Finish

SpecFetch == Init /\ [][NextFetch]_vars

\* The handler chain of a request runs on its own goroutine and goes on
\* whenever it is not blocked; nothing makes the remote fetch return.
SpecFetchFair ==
    /\ SpecFetch
    /\ WF_vars(\E r \in BuiltRoutes : ServeHTTP(r))
    /\ WF_vars(Finish)

TypeOK ==
    /\ variant \in Variants
    /\ phase \in {"configuring", "serving", "failed"}
    /\ builderCalls \in 0..MaxBuilderCalls
    /\ req.pc \in {"idle", "fetching", "routed", "done"}
    /\ req.token \in Tokens

(***************************************************************************)
(* Vocabulary of the properties                                            *)
(***************************************************************************)
GlobalOptions == authorizationOptions[1]

\* The request went through the middleware and a route handler decided it.
Decided == req.pc = "done" /\ Len(req.ctxAuth) # 0

\* The middleware resolved the request (it may not be dispatched yet).
Resolved == req.pc \in {"routed", "done"} /\ Len(req.ctxAuth) # 0

Enabled == ~GlobalOptions.Disabled

\* The policy merge the specification prescribes: the route's value when
\* the route set it, else the global option.
PolicyAllowAnonymous(r) ==
    IF Len(routes[r].allowAnonymous) # 0 THEN routes[r].allowAnonymous[1]
    ELSE GlobalOptions.AllowAnonymous

PolicyInvalidTokenIsAnonymous(r) ==
    IF Len(routes[r].invalidTokenIsAnonymous) # 0 THEN routes[r].invalidTokenIsAnonymous[1]
    ELSE GlobalOptions.InvalidTokenIsAnonymous

PolicyInvalidScopeIsAnonymous(r) ==
    IF Len(routes[r].invalidScopeIsAnonymous) # 0 THEN routes[r].invalidScopeIsAnonymous[1]
    ELSE GlobalOptions.InvalidScopeIsAnonymous

RequiredScopeOption == IF GlobalOptions.RequiredScope = "" THEN "*" ELSE GlobalOptions.RequiredScope

PolicyAllowedScopes(r) ==
    IF Len(routes[r].allowedScopes) # 0 THEN routes[r].allowedScopes[1]
    ELSE <<RequiredScopeOption>>

AllowNil == req.out.appCalled /\ req.out.appUser = NilUser /\ req.out.status = 200

AllowIdentity ==
    /\ req.out.appCalled
    /\ req.out.status = 200
    /\ req.out.appUser.ref = "new"
    /\ req.out.appUser.UserID = req.token.sub

Unauthorized == ~req.out.appCalled /\ req.out.status = 401

Forbidden == ~req.out.appCalled /\ req.out.status = 403

\* The token of the request passed jwt.Parse (signature and validity) under
\* the key its kid resolved to.
Verified ==
    /\ req.token.shape # "none"
    /\ SplitLen(req.token) = 2
    /\ Parse(req.token, IF variant = "authpkg"
                        THEN KeyFunc_authpkg(a[1], req.token, req.fetchOK)
                        ELSE KeyFunc_rsa(a[1], req.token, req.fetchOK))

NoHook == a[1].userValidator = "nil"

NoRouteScopes == Len(routes[req.route].allowedScopes) = 0

(***************************************************************************)
(* C1: a request without Authorization header, authorization enabled, is   *)
(* resolved to Unauthenticated; the handler invokes the application        *)
(* function with a nil identity iff the effective allow_anonymous is true, *)
(* and otherwise answers 401 without invoking it.                          *)
(***************************************************************************)
C1_NoHeaderUnauthenticated ==
    (Resolved /\ Enabled /\ req.token.shape = "none") =>
        /\ req.ctxUser = unauthenticatedUser
        /\ req.pc = "done" =>
              IF PolicyAllowAnonymous(req.route) THEN AllowNil ELSE Unauthorized

C1_Witness ==
    /\ Decided /\ Enabled /\ req.token.shape = "none"
    /\ variant = "webservice"
    /\ ~GlobalOptions.AllowAnonymous
    /\ Len(routes[req.route].allowAnonymous) # 0
    /\ AllowNil

(***************************************************************************)
(* C2: a verified token with a non-empty sub whose scopes contain the      *)
(* required scope or the wildcard "*" is allowed with its identity: the    *)
(* application function is invoked with a user whose UserID is the sub.    *)
(***************************************************************************)
C2_ScopedTokenAllowed ==
    (/\ Decided /\ Enabled /\ Verified
     /\ req.token.sub # ""
     /\ \/ RequiredScopeOption \in req.token.scopes
        \/ "*" \in req.token.scopes)
    => AllowIdentity

(***************************************************************************)
(* C3 (as written, for the authpkg and webservice generations it names): a *)
(* verified token with a non-empty sub whose scopes do not contain the     *)
(* required scope (required scope neither "" nor "*") is answered 403, or  *)
(* allowed with a nil identity when the effective                          *)
(* invalid_scope_is_anonymous is true.                                     *)
(***************************************************************************)
C3_Original ==
    (/\ Decided /\ Enabled /\ Verified
     /\ variant \in {"authpkg", "webservice"}
     /\ req.token.sub # ""
     /\ GlobalOptions.RequiredScope \notin {"", "*"}
     /\ GlobalOptions.RequiredScope \notin req.token.scopes)
    => IF PolicyInvalidScopeIsAnonymous(req.route) THEN AllowNil ELSE Forbidden

(***************************************************************************)
(* C3 (amended): in the authpkg generation without ValidateUser hook and   *)
(* in the webservice generation on a route without its own allowed-scopes  *)
(* list, a verified token with a non-empty sub whose scopes contain        *)
(* neither the required scope (neither "" nor "*") nor the wildcard "*" is *)
(* answered 403, or allowed with a nil identity when the effective         *)
(* invalid_scope_is_anonymous is true.                                     *)
(***************************************************************************)
C3_MissingScopeForbidden ==
    (/\ Decided /\ Enabled /\ Verified
     /\ variant \in {"authpkg", "webservice"}
     /\ NoHook /\ NoRouteScopes
     /\ req.token.sub # ""
     /\ GlobalOptions.RequiredScope \notin {"", "*"}
     /\ GlobalOptions.RequiredScope \notin req.token.scopes
     /\ "*" \notin req.token.scopes)
    => IF PolicyInvalidScopeIsAnonymous(req.route) THEN AllowNil ELSE Forbidden

C3_Witness ==
    /\ Decided /\ Enabled /\ Verified
    /\ variant = "webservice" /\ NoRouteScopes
    /\ req.token.sub # ""
    /\ GlobalOptions.RequiredScope = "admin"
    /\ req.token.scopes = {"read"}
    /\ ~PolicyInvalidScopeIsAnonymous(req.route)
    /\ Forbidden

(***************************************************************************)
(* C4: a request resolved to InvalidToken is allowed with a nil identity   *)
(* when the effective invalid_token_is_anonymous is true and answered 401  *)
(* otherwise; without route override the global invalid_token_is_anonymous *)
(* option alone decides.                                                   *)
(***************************************************************************)
C4_InvalidTokenPolicy ==
    (Decided /\ Enabled /\ req.ctxUser = userWithInvalidToken) =>
        IF PolicyInvalidTokenIsAnonymous(req.route) THEN AllowNil ELSE Unauthorized

(***************************************************************************)
(* C5: when a route handler decides a request, each of the four effective  *)
(* policy values is the route's own value when the route set it and the    *)
(* global option's value otherwise, whatever the other route declares.     *)
(***************************************************************************)
C5_EffectivePolicyMerge ==
    (Decided /\ variant = "webservice") =>
        LET ah == routes[req.route] IN
        /\ EffAllowAnonymous(ah, a[1]) = PolicyAllowAnonymous(req.route)
        /\ EffInvalidTokenIsAnonymous(ah, a[1]) = PolicyInvalidTokenIsAnonymous(req.route)
        /\ EffInvalidScopeIsAnonymous(ah, a[1]) = PolicyInvalidScopeIsAnonymous(req.route)
        /\ EffAllowedScopes(ah, a[1]) = PolicyAllowedScopes(req.route)

(***************************************************************************)
(* C6 (as written, for the authpkg and webservice generations it names):   *)
(* when the required scope is "*" or empty, every verified token with a    *)
(* non-empty sub is allowed with its identity whatever scopes it carries.  *)
(***************************************************************************)
C6_Original ==
    (/\ Decided /\ Enabled /\ Verified
     /\ variant \in {"authpkg", "webservice"}
     /\ req.token.sub # ""
     /\ GlobalOptions.RequiredScope \in {"", "*"})
    => AllowIdentity

(***************************************************************************)
(* C6 (amended): when the required scope is "*" or empty, no ValidateUser  *)
(* hook is supplied and the route declares no allowed-scopes list of its   *)
(* own, every verified token with a non-empty sub is allowed with its      *)
(* identity whatever scopes it carries, including none.                    *)
(***************************************************************************)
C6_WildcardRequiredScope ==
    (/\ Decided /\ Enabled /\ Verified
     /\ variant \in {"authpkg", "webservice"}
     /\ NoHook /\ NoRouteScopes
     /\ req.token.sub # ""
     /\ GlobalOptions.RequiredScope \in {"", "*"})
    => AllowIdentity

C6_Witness ==
    /\ Decided /\ Enabled /\ Verified
    /\ variant = "webservice" /\ NoRouteScopes
    /\ req.token.sub # ""
    /\ GlobalOptions.RequiredScope = ""
    /\ a[1].requiredScope = "*"
    /\ req.token.scopes = {}
    /\ AllowIdentity

(***************************************************************************)
(* C7: when authorization is disabled, every request that reaches a route  *)
(* handler through the middleware is allowed and the application function  *)
(* is invoked with a nil identity, whatever the header and the options.    *)
(***************************************************************************)
C7_DisabledAllowsAll ==
    (Decided /\ GlobalOptions.Disabled) => AllowNil

C7_Witness ==
    /\ Decided /\ GlobalOptions.Disabled
    /\ req.token.shape = "bearer" /\ GoodBody(req.token) /\ req.token.sub # ""
    /\ ~GlobalOptions.AllowAnonymous
    /\ ~GlobalOptions.InvalidTokenIsAnonymous
    /\ AllowNil

C10_UnknownKidInvalidToken ==
    (/\ Resolved /\ Enabled
     /\ req.token.shape # "none"
     /\ req.token.kid \notin KeySetKids)
    => req.ctxUser = userWithInvalidToken

C10_Witness ==
    /\ Resolved /\ Enabled
    /\ variant = "authpkg"
    /\ req.token.shape = "bearer"
    /\ req.token.kid = "k9"
    /\ req.token.sig = "ok"
    /\ FullClaims(req.token)
    /\ req.fetchOK
    /\ req.ctxUser = userWithInvalidToken

(***************************************************************************)
(* C11: with authorization enabled, a non-empty Authorization header that  *)
(* is not of the shape "Bearer <token>" (another scheme, text before the   *)
(* "Bearer" marker, more than one marker) is resolved to InvalidToken, and *)
(* the handler answers 401 unless the effective invalid_token_is_anonymous *)
(* is true, in which case it allows the request with a nil identity.       *)
(***************************************************************************)
C11_MalformedHeaderInvalidToken ==
    (/\ Resolved /\ Enabled
     /\ req.token.shape \in {"wrong_scheme", "prefixed", "double"})
    => /\ req.ctxUser = userWithInvalidToken
       /\ req.pc = "done" =>
             IF PolicyInvalidTokenIsAnonymous(req.route) THEN AllowNil ELSE Unauthorized

\* A builder call on route r leaves the named override fields of r, and
\* every other route, as they were.
Kept(r, fields) ==
    /\ \A f \in fields : routes'[r][f] = routes[r][f]
    /\ \A q \in Routes \ {r} : routes'[q] = routes[q]

(***************************************************************************)
(* C13 (as written): each per-route builder call overrides only its own    *)
(* field of the route and leaves the three other fields as they were; in   *)
(* particular AllowAnonymous changes only allow_anonymous.                 *)
(***************************************************************************)
C13_Original ==
    [][\A r \in BuiltRoutes :
        /\ (\E l \in ScopeLists : AllowScopes(r, l)) =>
              Kept(r, {"allowAnonymous", "invalidTokenIsAnonymous", "invalidScopeIsAnonymous"})
        /\ AllowAnonymous(r) =>
              Kept(r, {"allowedScopes", "invalidTokenIsAnonymous", "invalidScopeIsAnonymous"})
        /\ InvalidTokenIsAnonymous(r) =>
              Kept(r, {"allowedScopes", "allowAnonymous", "invalidScopeIsAnonymous"})
        /\ InvalidScopeIsAnonymous(r) =>
              Kept(r, {"allowedScopes", "allowAnonymous", "invalidTokenIsAnonymous"})
      ]_vars

(***************************************************************************)
(* C13 (amended): AllowScopes, InvalidTokenIsAnonymous and                 *)
(* InvalidScopeIsAnonymous each override only their own field of the route *)
(* and leave the three other fields as they were; AllowAnonymous sets      *)
(* allow_anonymous, invalid_token_is_anonymous and                         *)
(* invalid_scope_is_anonymous of the route to true and leaves only its     *)
(* allowed scopes as they were. No call touches another route.             *)
(***************************************************************************)
C13_BuilderFrame ==
    [][\A r \in BuiltRoutes :
        /\ (\E l \in ScopeLists : AllowScopes(r, l)) =>
              Kept(r, {"allowAnonymous", "invalidTokenIsAnonymous", "invalidScopeIsAnonymous"})
        /\ AllowAnonymous(r) =>
              /\ routes'[r].allowAnonymous = <<TRUE>>
              /\ routes'[r].invalidTokenIsAnonymous = <<TRUE>>
              /\ routes'[r].invalidScopeIsAnonymous = <<TRUE>>
              /\ Kept(r, {"allowedScopes"})
        /\ InvalidTokenIsAnonymous(r) =>
              /\ routes'[r].invalidTokenIsAnonymous = <<TRUE>>
              /\ Kept(r, {"allowedScopes", "allowAnonymous", "invalidScopeIsAnonymous"})
        /\ InvalidScopeIsAnonymous(r) =>
              /\ routes'[r].invalidScopeIsAnonymous = <<TRUE>>
              /\ Kept(r, {"allowedScopes", "allowAnonymous", "invalidTokenIsAnonymous"})
      ]_vars

\* AllowAnonymous was called on r1 of a fresh router, and a request without
\* header was then served on it.
C13_Witness ==
    /\ builderCalls = 1
    /\ routes["r1"] = [NoOverride EXCEPT !.allowAnonymous = <<TRUE>>,
                                         !.invalidTokenIsAnonymous = <<TRUE>>,
                                         !.invalidScopeIsAnonymous = <<TRUE>>]
    /\ routes["r2"] = NoOverride
    /\ Decided /\ req.route = "r1" /\ req.token.shape = "none"

\* The user info u with the UserID of the request's token in place of the
\* UserID of an allocated identity; a sentinel is left as it is.
WithRequestSub(u) == IF u.ref = "new" THEN [u EXCEPT !.UserID = req.token.sub] ELSE u

(***************************************************************************)
(* C14: a token whose sub is the UserID of a sentinel (its other claims    *)
(* giving the sentinel's other field values) is resolved and decided       *)
(* exactly as the same token with an ordinary sub: the context holds what  *)
(* it would hold for sub "u1", an allocated identity carrying the sub and  *)
(* never the sentinel because of the sub, and the handler's outcome is the *)
(* outcome for that identity.                                              *)
(***************************************************************************)
C14_SentinelLookalikeIsIdentity ==
    (Resolved /\ req.token.sub \in SentinelUserIDs) =>
        LET t    == [req.token EXCEPT !.sub = "u1"]
            user == MiddlewareUserInfo(variant, a[1], t, req.fetchOK)
            out  == ServeHTTPOutcome(variant, routes[req.route], req.ctxAuth, user)
        IN  /\ req.ctxUser = WithRequestSub(user)
            /\ Verified /\ variant # "legacy" /\ Enabled =>
                   req.ctxUser.ref \in {"new", "userWithInvalidScope"}
            /\ req.pc = "done" =>
                   req.out = [out EXCEPT !.appUser = WithRequestSub(out.appUser)]

C14_Witness ==
    /\ Decided /\ Enabled /\ Verified
    /\ variant = "webservice"
    /\ req.token.sub = userWithInvalidToken.UserID
    /\ req.token.email = userWithInvalidToken.Email
    /\ req.token.scopes = userWithInvalidToken.Scopes
    /\ ~GlobalOptions.InvalidTokenIsAnonymous
    /\ ~GlobalOptions.InvalidScopeIsAnonymous
    /\ AllowIdentity
    /\ req.out.appUser.UserID = userWithInvalidToken.UserID

\* The scope encoding other than the one the token uses.
OtherEnc(enc) == IF enc = "string" THEN "list" ELSE "string"

(***************************************************************************)
(* C15: a verified token that carries its scopes as a space-separated      *)
(* string and the token that carries the same scopes as a list are both    *)
(* accepted and resolved to an identity with that same scope set, so the   *)
(* middleware resolves both to the same context value and the handler      *)
(* decides both the same way.                                              *)
(***************************************************************************)
C15_ScopeEncodingsEquivalent ==
    (/\ Resolved /\ Enabled /\ Verified
     /\ req.token.sub # ""
     /\ req.token.enc \in {"string", "list"})
    => LET t    == [req.token EXCEPT !.enc = OtherEnc(req.token.enc)]
           user == MiddlewareUserInfo(variant, a[1], t, req.fetchOK)
       IN  /\ req.ctxUser = user
           /\ req.ctxUser.ref = "new" => req.ctxUser.Scopes = req.token.scopes
           /\ req.pc = "done" =>
                  req.out = ServeHTTPOutcome(variant, routes[req.route], req.ctxAuth, user)

(***************************************************************************)
(* C16: with authorization enabled and a static key set configured, the    *)
(* JWKS URL is ignored whatever it is: no auto-refreshing source is        *)
(* created, Validate succeeds without a fetch (its result does not depend  *)
(* on any fetch result), the server starts, no request fetches, and every  *)
(* token is resolved as it is when the URL cannot be reached.              *)
(***************************************************************************)
C16_StaticJwksNoFetch ==
    (/\ Len(a) # 0
     /\ ~GlobalOptions.Disabled
     /\ GlobalOptions.Jwks = "static")
    => /\ ~a[1].autoRefresh
       /\ a[1].jwks = "static"
       /\ \A f \in BOOLEAN : Validate(a[1], f) = "ok"
       /\ phase = "serving"
       /\ Resolved =>
              /\ ~req.fetched
              /\ req.fetchOK
              /\ \A f \in BOOLEAN :
                     req.ctxUser = MiddlewareUserInfo(variant, a[1], req.token, f)

C16_Witness ==
    /\ Decided
    /\ ~GlobalOptions.Disabled
    /\ GlobalOptions.Jwks = "static"
    /\ GlobalOptions.JwksURL = "url"
    /\ a[1].jwksURL = "url"
    /\ Verified
    /\ req.token.sub = "u1"
    /\ ~req.fetched
    /\ AllowIdentity

\* What the latest SetTimeouts call asks for: the default for 0, else the
\* value passed.
Asked(passed, default) == IF passed = 0 THEN default ELSE passed

(***************************************************************************)
(* C17: after any sequence of SetTimeouts calls made before Start, each of *)
(* the three timeouts whose latest call passed 0 has its default value     *)
(* (write 15s, read 15s, idle 60s) and each whose latest call passed a     *)
(* positive duration has that duration; Start builds the server with these *)
(* values.                                                                 *)
(***************************************************************************)
C17_LatestSetTimeoutsWins ==
    Len(setTimeoutsLog) # 0 =>
        LET last == setTimeoutsLog[Len(setTimeoutsLog)] IN
        /\ timeouts.writeTimeout = Asked(last.writeTimeout, DefaultWriteTimeout)
        /\ timeouts.readTimeout = Asked(last.readTimeout, DefaultReadTimeout)
        /\ timeouts.idleTimeout = Asked(last.idleTimeout, DefaultIdleTimeout)
        /\ Len(server) # 0 => server[1] = Server(timeouts)

(***************************************************************************)
(* C18: with authorization enabled, a verified token whose sub claim is    *)
(* empty, missing or not a string (the middleware reads all three as the   *)
(* empty user id) is resolved to InvalidToken; the context never holds an  *)
(* identity with an empty user id, and the application function is never   *)
(* invoked with one: the handler answers 401 or, by policy, allows the     *)
(* request with a nil identity.                                            *)
(***************************************************************************)
C18_EmptySubInvalidToken ==
    /\ (Resolved /\ Enabled /\ Verified /\ req.token.sub = "") =>
           /\ req.ctxUser = userWithInvalidToken
           /\ req.pc = "done" => Unauthorized \/ AllowNil
    /\ req.ctxUser.ref = "new" => req.ctxUser.UserID # ""
    /\ req.out.appUser.ref = "new" => req.out.appUser.UserID # ""

C18_Witness ==
    /\ Decided /\ Enabled /\ Verified
    /\ variant = "webservice"
    /\ req.token.sub = ""
    /\ req.token.email = "e1"
    /\ req.token.scopes = {"admin"}
    /\ GlobalOptions.RequiredScope = "admin"
    /\ req.ctxUser = userWithInvalidToken
    /\ Unauthorized

(***************************************************************************)
(* C19: the email claim is optional. With authorization enabled, a         *)
(* verified token with a non-empty sub and no email claim is never         *)
(* resolved to InvalidToken for lack of the email: it is resolved as the   *)
(* same token with an email is (the scope checks apply normally), the      *)
(* identity carrying an empty email.                                       *)
(***************************************************************************)
C19_EmailOptional ==
    (/\ Resolved /\ Enabled /\ Verified
     /\ req.token.sub # ""
     /\ req.token.email = "")
    => LET t    == [req.token EXCEPT !.email = "e1"]
           user == MiddlewareUserInfo(variant, a[1], t, req.fetchOK)
       IN  /\ req.ctxUser # userWithInvalidToken
           /\ req.ctxUser = IF user.ref = "new" THEN [user EXCEPT !.Email = ""] ELSE user

(***************************************************************************)
(* C20: on a route that declares its own allowed-scopes list, an           *)
(* authenticated identity passes iff some entry of that list is "" or "*"  *)
(* or a scope the identity holds (any match wins, the global required      *)
(* scope plays no part); it is then allowed with its identity. When no     *)
(* entry matches, the request is allowed with a nil identity if the        *)
(* effective invalid_scope_is_anonymous is true and answered 403           *)
(* otherwise.                                                              *)
(***************************************************************************)
C20_RouteScopesAnyMatch ==
    (/\ Decided /\ Enabled
     /\ variant = "webservice"
     /\ req.ctxUser.ref = "new"
     /\ Len(routes[req.route].allowedScopes) # 0)
    => LET list == routes[req.route].allowedScopes[1] IN
       IF \E i \in 1..Len(list) : list[i] \in {"", "*"} \cup req.ctxUser.Scopes
       THEN AllowIdentity /\ req.out.appUser = req.ctxUser
       ELSE IF PolicyInvalidScopeIsAnonymous(req.route) THEN AllowNil ELSE Forbidden

\* An identity without the global required scope passes through the "*"
\* entry in second place of the route's list.
C20_Witness ==
    /\ Decided /\ Enabled
    /\ variant = "webservice"
    /\ req.route = "r1"
    /\ routes["r1"].allowedScopes = << <<"admin", "*">> >>
    /\ GlobalOptions.RequiredScope = "admin"
    /\ req.ctxUser.ref = "new"
    /\ req.ctxUser.Scopes = {"read"}
    /\ AllowIdentity

(***************************************************************************)
(* C21: when a ValidateUser hook is supplied it replaces the built-in      *)
(* scope check: a verified token with a non-empty sub is resolved to its   *)
(* identity iff the hook returns true for that identity and to             *)
(* InvalidScope iff it returns false, whatever the required scope; the     *)
(* hook is called for such a token and never for a request resolved to     *)
(* Unauthenticated or InvalidToken.                                        *)
(***************************************************************************)
C21_HookReplacesScopeCheck ==
    (Resolved /\ Enabled /\ variant = "authpkg" /\ ~NoHook) =>
        LET identity == NewUserInfo(req.token.sub, req.token.email,
                                    ScopesFromList(req.token))
        IN  /\ (Verified /\ req.token.sub # "") =>
                  /\ req.validatorCalled
                  /\ req.ctxUser = IF userValidator(a[1].userValidator, identity)
                                   THEN identity ELSE userWithInvalidScope
            /\ req.ctxUser \in {unauthenticatedUser, userWithInvalidToken} =>
                  ~req.validatorCalled

\* The hook accepts a token that lacks the required scope "admin".
C21_Witness ==
    /\ Decided /\ Enabled /\ Verified
    /\ variant = "authpkg"
    /\ a[1].userValidator = "hasRead"
    /\ GlobalOptions.RequiredScope = "admin"
    /\ req.token.sub = "u1"
    /\ req.token.enc = "list" /\ req.token.scopes = {"read"}
    /\ req.validatorCalled
    /\ AllowIdentity

(***************************************************************************)
(* C22: the verification method comes from the algorithm declared by the   *)
(* key the kid resolves to, never from the algorithm in the token header:  *)
(* with authorization enabled, a token whose kid resolves to a key with an *)
(* algorithm other than RS256 and ES256 is resolved to InvalidToken, and a *)
(* token whose header algorithm differs from its key's algorithm is never  *)
(* resolved to an identity.                                                *)
(***************************************************************************)
C22_KeyAlgorithmDecides ==
    (/\ Resolved /\ Enabled
     /\ req.token.shape # "none"
     /\ req.token.kid \in KeySetKids)
    => /\ KeyAlg(req.token.kid) \notin {"RS256", "ES256"} =>
              req.ctxUser = userWithInvalidToken
       /\ req.token.alg # KeyAlg(req.token.kid) => req.ctxUser.ref # "new"

\* The messages the route handlers give their own rejections.
HandlerMessages == {"Unauthorized", "Forbidden", "Authorization info not available",
                    "Unable to get user info"}

(***************************************************************************)
(* C24: the response to a request rejected for an invalid token is the     *)
(* same whichever failure made the token invalid (header shape, missing or *)
(* unknown kid, unsupported algorithm, bad or expired signature, key fetch *)
(* error): status 401 with code 401, the message "Unauthorized" and no     *)
(* description. No 401, 403 or 500 written by a route handler itself       *)
(* carries a description: its body is the status code and one of the       *)
(* handlers' fixed messages.                                               *)
(***************************************************************************)
C24_UniformRejection ==
    /\ (Decided /\ Enabled /\ req.ctxUser = userWithInvalidToken /\ ~req.out.appCalled) =>
           /\ req.out.status = 401
           /\ req.out.body = [code |-> 401, message |-> "Unauthorized", description |-> ""]
    /\ (req.pc = "done" /\ ~req.out.appCalled) =>
           /\ req.out.status \in {401, 403, 500}
           /\ req.out.body.code = req.out.status
           /\ req.out.body.message \in HandlerMessages
           /\ req.out.body.description = ""

\* A token rejected because its key could not be fetched.
C24_Witness ==
    /\ Decided /\ Enabled
    /\ variant = "authpkg"
    /\ req.token.shape = "bearer" /\ GoodBody(req.token) /\ FullClaims(req.token)
    /\ req.fetched /\ ~req.fetchOK
    /\ req.out.status = 401
    /\ req.out.body = [code |-> 401, message |-> "Unauthorized", description |-> ""]

\* C23: a failed JWKS fetch during a request is recovered for that request
\* as InvalidToken (then 401, or the application function with no identity
\* where the policy makes an invalid token anonymous) and neither stops nor
\* changes the service: every request that needs the remote key set waits
\* on a fetch of its own, and what it resolves to depends on the result of
\* that fetch only, whatever the earlier fetches did.
C23_FetchFailureRecovered ==
    [][/\ (req.pc = "idle" /\ req'.pc # "idle" /\ Fetches(variant, a[1], req'.token))
           => req'.pc = "fetching"
       /\ (req.pc = "fetching" /\ req'.pc # "fetching")
           => /\ req'.pc = "routed"
              /\ phase' = "serving"
              /\ a' = a
              /\ req'.ctxAuth = a
              /\ req'.ctxUser = IF req'.fetchOK
                                THEN MiddlewareUserInfo(variant, a[1], req.token, TRUE)
                                ELSE userWithInvalidToken
       /\ (req.pc = "routed" /\ req'.pc = "done" /\ req.fetched /\ ~req.fetchOK)
           => \/ req'.out.status = 401 /\ ~req'.out.appCalled
              \/ req'.out.appCalled /\ req'.out.appUser = NilUser]_vars

\* A request whose fetch failed was resolved as InvalidToken, and the next
\* request, with a valid token and a fetch that succeeds, is allowed.
C23_Witness ==
    /\ Len(resolutions) = 2
    /\ ~resolutions[1].fetchOK
    /\ resolutions[1].ctxUser = userWithInvalidToken
    /\ resolutions[2].fetchOK
    /\ req.pc = "done"
    /\ req.fetched
    /\ req.token = resolutions[2].token
    /\ req.out.appCalled
    /\ req.out.appUser.ref = "new"

\* C25: the middleware never rejects a request itself. Whatever the state
\* the request is resolved to and whatever the policy, the middleware
\* attaches the policy handle and the identity or sentinel to the request
\* context, writes no response and hands the request to the next handler,
\* which runs once; a 401 or 403 is written only by a route handler.
C25_MiddlewareNeverRejects ==
    [][/\ (req.pc = "idle" /\ req'.pc # "idle" /\ req'.ctxAuth # <<>>)
           => /\ req'.pc = "routed"
              /\ req'.ctxAuth = a
              /\ req'.ctxUser = MiddlewareUserInfo(variant, a[1], req'.token, req'.fetchOK)
              /\ req'.ctxUser.ref # "nil"
              /\ req'.out = NoResponse
       /\ (req.pc = "routed" /\ req' # req)
           => req'.pc = "done" /\ req'.ctxAuth = req.ctxAuth /\ req'.ctxUser = req.ctxUser
       /\ (req'.out.status \in {401, 403} /\ req'.out # req.out)
           => /\ req'.pc = "done"
              /\ req'.out = ServeHTTPOutcome(variant, routes[req'.route],
                                             req'.ctxAuth, req'.ctxUser)]_vars

\* A request with an invalid token under a policy that denies it has left
\* the middleware: the sentinel is in its context and nothing was written.
C25_Witness ==
    /\ req.pc = "routed"
    /\ req.ctxAuth = a
    /\ ~a[1].disabled
    /\ ~a[1].allowAnonymous
    /\ ~a[1].invalidTokenIsAnonymous
    /\ req.ctxUser = userWithInvalidToken
    /\ req.out = NoResponse

\* C28: the application function of a route handler never receives a
\* sentinel as its user: the argument is nil, or the identity the
\* middleware built from a token that passed verification and carries a
\* non-empty sub.
C28_AppNeverGetsSentinel ==
    req.out.appCalled =>
        \/ req.out.appUser = NilUser
        \/ /\ req.out.appUser.ref = "new"
           /\ req.out.appUser = req.ctxUser
           /\ Verified
           /\ req.token.sub # ""
           /\ req.out.appUser.UserID = req.token.sub

\* A request resolved to a sentinel reached the application function of a
\* route that lets it through as anonymous: the function was given nil.
C28_Witness ==
    /\ req.pc = "done"
    /\ Resolved
    /\ ~req.ctxAuth[1].disabled
    /\ req.ctxUser \in {userWithInvalidToken, userWithInvalidScope}
    /\ req.out.appCalled
    /\ req.out.appUser = NilUser

\* C29: a request context that carries the policy handle also carries a
\* non-nil identity or sentinel, the middleware setting both; so a route
\* handler behind the middleware never answers 500 "Unable to get user
\* info" and never evaluates the scope check on a nil identity.
C29_HandleComesWithUser ==
    Resolved =>
        /\ req.ctxUser.ref # "nil"
        /\ req.pc = "done" =>
               /\ req.out # Panic
               /\ ~(req.out.status = 500 /\ req.out.body.message = "Unable to get user info")

\* The scope check of a route handler behind the middleware was evaluated
\* on an identity and refused it.
C29_Witness ==
    /\ variant = "webservice"
    /\ req.pc = "done"
    /\ Resolved
    /\ req.ctxUser.ref = "new"
    /\ req.out.status = 403

\* C30: a request handled by a route handler ends in exactly one outcome:
\* the application function was invoked, once, and no rejection was
\* written, or a single 401, 403 or 500 rejection was written and the
\* application function did not run.
C30_OneTerminalOutcome ==
    req.pc = "done" =>
        \/ /\ req.out.appCalled
           /\ req.out.status = 200
           /\ req.out.body = NoBody
        \/ /\ ~req.out.appCalled
           /\ req.out.status \in {401, 403, 500}
           /\ req.out.body.code = req.out.status
           /\ req.out.appUser = NilUser

\* A route handler refused a request: the rejection is the whole outcome.
C30_Witness ==
    /\ req.pc = "done"
    /\ variant \in {"legacy", "authpkg"}
    /\ ~req.out.appCalled
    /\ req.out.status \in {401, 403}

\* The requests resolved so far and the current one agree: the same token
\* under the same key set gave the same resolved state, and the outcome of
\* the current request is the handler's decision on that state.
SameTokenSameResult ==
    /\ \A i, j \in 1..Len(resolutions) :
           (/\ resolutions[i].token = resolutions[j].token
            /\ resolutions[i].fetchOK = resolutions[j].fetchOK)
           => resolutions[i].ctxUser = resolutions[j].ctxUser
    /\ \A i \in 1..Len(resolutions) :
           (/\ req.pc \in {"routed", "done"}
            /\ resolutions[i].token = req.token
            /\ resolutions[i].fetchOK = req.fetchOK)
           => /\ req.ctxUser = resolutions[i].ctxUser
              /\ req.pc = "done" =>
                     req.out = ServeHTTPOutcome(variant, routes[req.route], a,
                                                resolutions[i].ctxUser)

C27_CancelledRequestStopsWaiting ==
    (req.pc = "fetching" /\ req.ctxDone) ~> (req.pc # "fetching")

====
